---------------------------- MODULE Spec2Model ----------------------------
(***************************************************************************)
(* A model of the dashboard page of protractor09/ai-dashboard              *)
(* (src/src/app/api/mistral/route.ts): the React state of Page, its event  *)
(* handlers and effects as actions, and its derived values (useMemo) as    *)
(* operators over the state.                                               *)
(*                                                                         *)
(* JavaScript values.  A string is a sequence of one-character strings.    *)
(* `undefined` is the one-element sequence UNDEF.  A number is a rational  *)
(* [n, d] in lowest terms with d > 0 (binary rounding is not modelled),    *)
(* and NaN is the record with d = 0.                                       *)
(***************************************************************************)
EXTENDS Integers, Sequences, FiniteSets, TLC

----------------------------------------------------------------------------
(* Numbers *)

Abs(i) == IF i < 0 THEN -i ELSE i

RECURSIVE Gcd(_, _)
Gcd(a, b) == IF b = 0 THEN a ELSE Gcd(b, a % b)

NaN == [n |-> 0, d |-> 0]

IsNaNValue(x) == x.d = 0

\* The rational a/b (b > 0) in lowest terms.
Rat(a, b) ==
  LET g == Gcd(Abs(a), b)
  IN  [n |-> a \div g, d |-> b \div g]

Int2Num(i) == [n |-> i, d |-> 1]

\* x + y, x - y, x / k on JS numbers: NaN is contagious.
NumAdd(x, y) ==
  IF IsNaNValue(x) \/ IsNaNValue(y) THEN NaN
  ELSE Rat(x.n * y.d + y.n * x.d, x.d * y.d)

NumSub(x, y) ==
  IF IsNaNValue(x) \/ IsNaNValue(y) THEN NaN
  ELSE Rat(x.n * y.d - y.n * x.d, x.d * y.d)

\* x / k for an integer k >= 0; 0/0 is NaN (x/0 for x # 0 is an infinity,
\* which no caller of this model produces).
NumDivInt(x, k) ==
  IF IsNaNValue(x) \/ k = 0 THEN NaN ELSE Rat(x.n, x.d * k)

\* x <= y, x >= y: false as soon as one side is NaN.
NumLeq(x, y) == ~IsNaNValue(x) /\ ~IsNaNValue(y) /\ x.n * y.d <= y.n * x.d

NumGeq(x, y) == NumLeq(y, x)

\* The sign of a number, as Array.prototype.sort reads a comparator's
\* result (NaN is read as 0).
NumSign(x) ==
  IF IsNaNValue(x) \/ x.n = 0 THEN 0 ELSE IF x.n < 0 THEN -1 ELSE 1

\* `x || 0` on a number: NaN and 0 are falsy.
OrZero(x) == IF IsNaNValue(x) \/ x.n = 0 THEN Int2Num(0) ELSE x

----------------------------------------------------------------------------
(* Strings *)

UNDEF == <<"undefined">>

Digits == <<"0", "1", "2", "3", "4", "5", "6", "7", "8", "9">>

Uppers == <<"A", "B", "C", "D", "E", "F", "G", "H", "I", "J", "K", "L", "M",
            "N", "O", "P", "Q", "R", "S", "T", "U", "V", "W", "X", "Y", "Z">>

Lowers == <<"a", "b", "c", "d", "e", "f", "g", "h", "i", "j", "k", "l", "m",
            "n", "o", "p", "q", "r", "s", "t", "u", "v", "w", "x", "y", "z">>

\* The 1-based index of the first c in seq, 0 when there is none.
IndexIn(seq, c) ==
  IF \E i \in 1..Len(seq) : seq[i] = c
  THEN CHOOSE i \in 1..Len(seq) :
         seq[i] = c /\ \A j \in 1..(i - 1) : seq[j] # c
  ELSE 0

IsDigit(c) == IndexIn(Digits, c) # 0

DigitVal(c) == IndexIn(Digits, c) - 1

IsSpace(c) == c = " "

\* String(v): undefined becomes the text "undefined".
String(v) ==
  IF v = UNDEF THEN <<"u", "n", "d", "e", "f", "i", "n", "e", "d">> ELSE v

ToLowerChar(c) ==
  IF IndexIn(Uppers, c) # 0 THEN Lowers[IndexIn(Uppers, c)] ELSE c

\* String.prototype.toLowerCase
ToLowerCase(s) == [i \in 1..Len(s) |-> ToLowerChar(s[i])]

\* String.prototype.includes: t occurs in s as a contiguous substring.
Includes(s, t) ==
  \E i \in 0..(Len(s) - Len(t)) : \A j \in 1..Len(t) : s[i + j] = t[j]

\* The first index >= i of s that holds no white space (Len(s)+1 if none).
RECURSIVE SkipSpace(_, _)
SkipSpace(s, i) ==
  IF i <= Len(s) /\ IsSpace(s[i]) THEN SkipSpace(s, i + 1) ELSE i

\* The first index >= i of s that holds no digit.
RECURSIVE SkipDigits(_, _)
SkipDigits(s, i) ==
  IF i <= Len(s) /\ IsDigit(s[i]) THEN SkipDigits(s, i + 1) ELSE i

\* The value of the digits s[i..j-1] (0 for an empty run).
RECURSIVE DigitsVal(_, _, _)
DigitsVal(s, i, j) ==
  IF j <= i THEN 0 ELSE DigitsVal(s, i, j - 1) * 10 + DigitVal(s[j - 1])

RECURSIVE Pow10(_)
Pow10(k) == IF k = 0 THEN 1 ELSE 10 * Pow10(k - 1)

\* The number whole + frac / scale, negated when neg.
Decimal(neg, whole, frac, scale) ==
  IF neg THEN Rat(-(whole * scale + frac), scale)
  ELSE Rat(whole * scale + frac, scale)

\* The literal whose digits are s[a..b-1] and, when c > b, s[b+1..c-1]
\* after the point s[b]; i is the index of its sign or first digit.
DecimalFraction(s, i, a, b, c) ==
  LET nfrac == IF c > b THEN c - (b + 1) ELSE 0
  IN  IF b = a /\ nfrac = 0
      THEN [val |-> NaN, end |-> i]
      ELSE [val |-> Decimal(s[i] = "-", DigitsVal(s, a, b),
                            IF c > b THEN DigitsVal(s, b + 1, c) ELSE 0,
                            Pow10(nfrac)),
            end |-> c]

DecimalWhole(s, i, a, b) ==
  DecimalFraction(s, i, a, b,
                  IF b <= Len(s) /\ s[b] = "." THEN SkipDigits(s, b + 1) ELSE b)

DecimalSigned(s, i, a) == DecimalWhole(s, i, a, SkipDigits(s, a))

\* The decimal literal [sign] digits [. digits] that starts at index i of
\* s: its value and the index after it, or NaN when no digit is there.
DecimalAt(s, i) ==
  DecimalSigned(s, i,
                IF i <= Len(s) /\ (s[i] = "-" \/ s[i] = "+") THEN i + 1 ELSE i)

\* parseFloat(v): the longest decimal prefix after leading white space
\* (exponents and "Infinity" are outside the modelled alphabet).
ParseFloat(v) ==
  LET s == String(v)
  IN  DecimalAt(s, SkipSpace(s, 1)).val

\* parseInt(v): the integer prefix after leading white space (radix 10).
ParseInt(v) ==
  LET s   == String(v)
      i   == SkipSpace(s, 1)
      neg == i <= Len(s) /\ s[i] = "-"
      a   == IF i <= Len(s) /\ (s[i] = "-" \/ s[i] = "+") THEN i + 1 ELSE i
      b   == SkipDigits(s, a)
  IN  IF b = a THEN NaN
      ELSE Int2Num(IF neg THEN -DigitsVal(s, a, b) ELSE DigitsVal(s, a, b))

\* The value of the literal r read at index i of v, NaN unless only white
\* space follows it.
NumberOf(v, r) ==
  IF IsNaNValue(r.val) THEN NaN
  ELSE IF SkipSpace(v, r.end) > Len(v) THEN r.val
  ELSE NaN

NumberFrom(v, i) ==
  IF i > Len(v) THEN Int2Num(0) ELSE NumberOf(v, DecimalAt(v, i))

\* Number(v): the whole trimmed text must be a decimal literal; the empty
\* (or all-blank) string is 0; undefined is NaN.
ToNumber(v) ==
  IF v = UNDEF THEN NaN ELSE NumberFrom(v, SkipSpace(v, 1))

\* The global isNaN(v)
isNaN(v) == IsNaNValue(ToNumber(v))

\* new Date(v).getTime() for the texts the model's date columns and the
\* <input type="date"> fields hold: "YYYY-MM-DD" with a month 01..12 and a
\* day 01..31 is a valid date, ordered by (year, month, day); every other
\* text of the model ("", "abc", undefined) is an Invalid Date, whose time
\* value is NaN.  new Date never throws.
DateTime(v) ==
  LET s == String(v)
      y == DigitsVal(s, 1, 5)
      m == DigitsVal(s, 6, 8)
      d == DigitsVal(s, 9, 11)
  IN  IF /\ Len(s) = 10
         /\ s[5] = "-" /\ s[8] = "-"
         /\ \A i \in {1, 2, 3, 4, 6, 7, 9, 10} : IsDigit(s[i])
         /\ m \in 1..12 /\ d \in 1..31
      THEN Int2Num((y * 12 + (m - 1)) * 31 + (d - 1))
      ELSE NaN

----------------------------------------------------------------------------
(* Arrays *)

\* row[i] for a 0-based JS index i: undefined outside the array.
At(row, i) == IF i + 1 \in 1..Len(row) THEN row[i + 1] ELSE UNDEF

\* Array.prototype.indexOf: the 0-based index of the first element equal
\* to x, -1 when there is none.
indexOf(arr, x) == IndexIn(arr, x) - 1

\* Array.prototype.includes
includes(arr, x) == \E i \in 1..Len(arr) : arr[i] = x

\* Array.prototype.slice(1)
Slice1(arr) == IF Len(arr) = 0 THEN <<>> ELSE Tail(arr)

\* The sum of nums[lo .. hi].  The additions are exact, so that the halves
\* added one to the other give the sum reduce builds from the left.
RECURSIVE SumRange(_, _, _)
SumRange(nums, lo, hi) ==
  IF lo > hi THEN Int2Num(0)
  ELSE IF lo = hi THEN NumAdd(Int2Num(0), nums[lo])
  ELSE NumAdd(SumRange(nums, lo, (lo + hi) \div 2),
              SumRange(nums, ((lo + hi) \div 2) + 1, hi))

\* The sum of the first k elements of nums.
SumUpTo(nums, k) == SumRange(nums, 1, k)

SumNums(nums) == SumUpTo(nums, Len(nums))

----------------------------------------------------------------------------
(* Texts of the model *)

sDate        == <<"D", "a", "t", "e">>
sRevenue     == <<"R", "e", "v", "e", "n", "u", "e">>
sUsers       == <<"U", "s", "e", "r", "s">>
sConversions == <<"C", "o", "n", "v", "e", "r", "s", "i", "o", "n", "s">>
sGrowth      == <<"G", "r", "o", "w", "t", "h">>
sLowRevenue  == <<"r", "e", "v", "e", "n", "u", "e">>
sUpdated     == <<"U", "p", "d", "a", "t", "e", "d">>
sName        == <<"N", "a", "m", "e">>
sEmpty       == <<>>

sBar     == <<"b", "a", "r">>
sLine    == <<"l", "i", "n", "e">>
sPie     == <<"p", "i", "e">>
sDonut   == <<"d", "o", "n", "u", "t">>
sScatter == <<"s", "c", "a", "t", "t", "e", "r">>

s100 == <<"1", "0", "0">>
s200 == <<"2", "0", "0">>
s5   == <<"5">>
s10  == <<"1", "0">>
s1p5 == <<"1", ".", "5">>
sNeg3 == <<"-", "3">>
s7   == <<"7">>
sAbc == <<"a", "b", "c">>
sDay1 == <<"2", "0", "2", "4", "-", "0", "1", "-", "0", "1">>
sDay2 == <<"2", "0", "2", "4", "-", "0", "1", "-", "0", "2">>
sDay3 == <<"2", "0", "2", "4", "-", "0", "1", "-", "0", "3">>

\* All sequences of at most n elements of S.
SeqUpTo(S, n) == UNION {[1..k -> S] : k \in 0..n}

----------------------------------------------------------------------------
(* The state of Page (route.ts 187-217) *)

VARIABLES
  data,             \* useState<any[][]>: row 0 is the header
  columns,          \* useState<string[]>
  xColumn, yColumn, chartType, instruction,
  metrics,          \* {revenue, users, conversions, growth}
  filterText, sortColumn, sortDirection, currentPage,
  dateRange,        \* {start, end}: "" or "YYYY-MM-DD"
  selectedColumns,
  isLoading,
  pending,          \* the /api/mistral requests in flight
  alert,            \* the alert() raised by the last handler, "none" if none
  ticks,            \* timer callbacks run so far
  last              \* the handler or callback that ran last

vars == <<data, columns, xColumn, yColumn, chartType, instruction, metrics,
          filterText, sortColumn, sortDirection, currentPage, dateRange,
          selectedColumns, isLoading, pending, alert, ticks, last>>

\* sortColumn = null
NoSort == -1

rowsPerPage == 10

ZeroMetrics ==
  [revenue |-> Int2Num(0), users |-> Int2Num(0),
   conversions |-> Int2Num(0), growth |-> Int2Num(0)]

Init ==
  /\ data = <<>>
  /\ columns = <<>>
  /\ xColumn = sEmpty
  /\ yColumn = sEmpty
  /\ chartType = sBar
  /\ instruction = sEmpty
  /\ metrics = ZeroMetrics
  /\ filterText = sEmpty
  /\ sortColumn = NoSort
  /\ sortDirection = "asc"
  /\ currentPage = 1
  /\ dateRange = [start |-> sEmpty, end |-> sEmpty]
  /\ selectedColumns = <<>>
  /\ isLoading = FALSE
  /\ pending = <<>>
  /\ alert = "none"
  /\ ticks = 0
  /\ last = "init"

----------------------------------------------------------------------------
(* Metrics (route.ts 321-373) *)

\* rows.reduce((sum, row) => sum + (parse(row[idx]) || 0), 0) with
\* parse = parseFloat
SumFloat(rows, idx) ==
  SumNums([i \in 1..Len(rows) |-> OrZero(ParseFloat(At(rows[i], idx)))])

\* the same with parse = parseInt
SumInt(rows, idx) ==
  SumNums([i \in 1..Len(rows) |-> OrZero(ParseInt(At(rows[i], idx)))])

\* computeMetrics with the average taken over data.length, header included.
computeMetrics_HeaderCounted(d, c) ==
  LET rows == Slice1(d)
  IN  [revenue     |-> SumFloat(rows, indexOf(c, sRevenue)),
       users       |-> SumInt(rows, indexOf(c, sUsers)),
       conversions |-> SumInt(rows, indexOf(c, sConversions)),
       growth      |-> NumDivInt(SumFloat(rows, indexOf(c, sGrowth)), Len(d))]

\* The body of the try block: the metrics of the table d with header c.
computeMetrics(d, c) ==
  LET rows == Slice1(d)
  IN  [revenue     |-> SumFloat(rows, indexOf(c, sRevenue)),
       users       |-> SumInt(rows, indexOf(c, sUsers)),
       conversions |-> SumInt(rows, indexOf(c, sConversions)),
       growth      |-> NumDivInt(SumFloat(rows, indexOf(c, sGrowth)), Len(rows))]

\* useEffect(..., [data, columns]): the metrics after the effect has run
\* for the table d with header c, prev being the metrics before.
MetricsEffect(d, c, prev) ==
  IF Len(d) > 1 /\ Len(c) > 0 THEN computeMetrics(d, c) ELSE prev

----------------------------------------------------------------------------
(* File upload (route.ts 248-313) *)

\* handleFileUpload with the request in flight dropped.
handleFileUpload_DropsPending(tbl) ==
  /\ Len(tbl) > 0
  /\ data' = tbl
  /\ columns' = tbl[1]
  /\ selectedColumns' = tbl[1]
  /\ metrics' = MetricsEffect(tbl, tbl[1], metrics)
  /\ pending' = <<>>
  /\ isLoading' = FALSE
  /\ alert' = "none"
  /\ last' = "upload"
  /\ UNCHANGED <<xColumn, yColumn, chartType, instruction, filterText,
                 sortColumn, sortDirection, currentPage, dateRange, ticks>>

\* A parse that succeeded with the 2D array tbl (row 0 the header): the
\* three setters, then the metrics effect their re-render triggers.
handleFileUpload(tbl) ==
  /\ Len(tbl) > 0
  /\ data' = tbl
  /\ columns' = tbl[1]
  /\ selectedColumns' = tbl[1]
  /\ metrics' = MetricsEffect(tbl, tbl[1], metrics)
  /\ alert' = "none"
  /\ last' = "upload"
  /\ UNCHANGED <<xColumn, yColumn, chartType, instruction, filterText,
                 sortColumn, sortDirection, currentPage, dateRange,
                 isLoading, pending, ticks>>

\* The state once the page, freshly mounted, has parsed the file tbl: Init
\* followed by handleFileUpload(tbl).
Uploaded(tbl) ==
  /\ Len(tbl) > 0
  /\ data = tbl
  /\ columns = tbl[1]
  /\ selectedColumns = tbl[1]
  /\ metrics = MetricsEffect(tbl, tbl[1], ZeroMetrics)
  /\ xColumn = sEmpty
  /\ yColumn = sEmpty
  /\ chartType = sBar
  /\ instruction = sEmpty
  /\ filterText = sEmpty
  /\ sortColumn = NoSort
  /\ sortDirection = "asc"
  /\ currentPage = 1
  /\ dateRange = [start |-> sEmpty, end |-> sEmpty]
  /\ isLoading = FALSE
  /\ pending = <<>>
  /\ alert = "none"
  /\ ticks = 0
  /\ last = "upload"

----------------------------------------------------------------------------
(* The timer (route.ts 225-238) *)

MaxTicks == 2

\* Samples of Math.random() * 100, Math.floor(Math.random() * 10),
\* Math.floor(Math.random() * 5) and (Math.random() - 0.5) * 2.
RevenueDraws     == {Rat(199, 2)}
UsersDraws       == {Int2Num(0), Int2Num(9)}
ConversionsDraws == {Int2Num(4)}
GrowthDraws      == {Int2Num(-1), Rat(1, 2)}

\* One run of the setInterval callback; the interval exists only while
\* data.length > 1.
Tick ==
  /\ Len(data) > 1
  /\ ticks < MaxTicks
  /\ \E r \in RevenueDraws, u \in UsersDraws,
        c \in ConversionsDraws, g \in GrowthDraws :
       metrics' = [revenue     |-> NumAdd(metrics.revenue, r),
                   users       |-> NumAdd(metrics.users, u),
                   conversions |-> NumAdd(metrics.conversions, c),
                   growth      |-> NumAdd(metrics.growth, g)]
  /\ ticks' = ticks + 1
  /\ alert' = "none"
  /\ last' = "tick"
  /\ UNCHANGED <<data, columns, xColumn, yColumn, chartType, instruction,
                 filterText, sortColumn, sortDirection, currentPage,
                 dateRange, selectedColumns, isLoading, pending>>

----------------------------------------------------------------------------
(* The filtered view (route.ts 402-474) *)

\* Array.prototype.filter: the elements of rows that satisfy Keep, in order.
RECURSIVE Filter(_, _)
Filter(rows, keep) ==
  IF Len(rows) = 0 THEN <<>>
  ELSE IF keep[rows[1]] THEN <<rows[1]>> \o Filter(Tail(rows), keep)
  ELSE Filter(Tail(rows), keep)

\* RowMatchesText without the two toLowerCase calls.
RowMatchesText_CaseSensitive(row, text) ==
  \E i \in 1..Len(row) : Includes(String(row[i]), text)

\* row.some(cell => String(cell).toLowerCase().includes(text.toLowerCase()))
RowMatchesText(row, text) ==
  \E i \in 1..Len(row) :
    Includes(ToLowerCase(String(row[i])), ToLowerCase(text))

\* if (filterText) rows = rows.filter(...)
textFilter(rows, text) ==
  IF text # sEmpty
  THEN Filter(rows, [r \in {rows[i] : i \in 1..Len(rows)} |->
                       RowMatchesText(r, text)])
  ELSE rows

\* columns.findIndex(col => col.toLowerCase().includes('date') ||
\*                          col.toLowerCase().includes('time'))
dateColumnIndex(cols) ==
  LET hit == {i \in 1..Len(cols) :
                \/ Includes(ToLowerCase(cols[i]), <<"d", "a", "t", "e">>)
                \/ Includes(ToLowerCase(cols[i]), <<"t", "i", "m", "e">>)}
  IN  IF hit = {} THEN -1 ELSE (CHOOSE i \in hit : \A j \in hit : i <= j) - 1

\* InDateRange with > and < for >= and <=.
InDateRange_Exclusive(dateValue, hasStart, hasEnd, startDate, endDate) ==
  LET After  == NumGeq(dateValue, startDate) /\ dateValue # startDate
      Before == NumLeq(dateValue, endDate) /\ dateValue # endDate
  IN  IF hasStart /\ hasEnd THEN After /\ Before
      ELSE IF hasStart THEN After
      ELSE IF hasEnd THEN Before
      ELSE TRUE

\* dateValue >= startDate etc., startDate and endDate being null when the
\* bound is "" (hasStart, hasEnd false).
InDateRange(dateValue, hasStart, hasEnd, startDate, endDate) ==
  IF hasStart /\ hasEnd
  THEN NumGeq(dateValue, startDate) /\ NumLeq(dateValue, endDate)
  ELSE IF hasStart THEN NumGeq(dateValue, startDate)
  ELSE IF hasEnd THEN NumLeq(dateValue, endDate)
  ELSE TRUE

\* The callback of the date filter: new Date never throws, so the catch
\* branch (return true) is never taken; an Invalid Date compares false.
RowInDateRange(row, idx, range) ==
  InDateRange(DateTime(At(row, idx)), range.start # sEmpty, range.end # sEmpty,
              DateTime(range.start), DateTime(range.end))

\* if (dateRange.start || dateRange.end) { ... }
dateFilter(rows, cols, range) ==
  IF (range.start # sEmpty \/ range.end # sEmpty) /\ dateColumnIndex(cols) # -1
  THEN Filter(rows, [r \in {rows[i] : i \in 1..Len(rows)} |->
                       RowInDateRange(r, dateColumnIndex(cols), range)])
  ELSE rows

\* Column selection: rows.map(row => selectedIndices.map(i => row[i]))
projectColumns(rows, cols, selected) ==
  IF Len(selected) > 0 /\ Len(selected) < Len(cols)
  THEN [k \in 1..Len(rows) |->
          [j \in 1..Len(selected) |-> At(rows[k], indexOf(cols, selected[j]))]]
  ELSE rows

\* The order of the characters of the model at the first (letter) level
\* of the default collation: white space, punctuation, digits, letters.
CollationOrder == <<" ", "-", ":", ".", "/">> \o Digits \o Lowers

PrimaryWeight(c) == IndexIn(CollationOrder, ToLowerChar(c))

\* The sign of the lexicographic comparison of two sequences of integers.
RECURSIVE LexCompare(_, _)
LexCompare(a, b) ==
  IF Len(a) = 0 /\ Len(b) = 0 THEN 0
  ELSE IF Len(a) = 0 THEN -1
  ELSE IF Len(b) = 0 THEN 1
  ELSE IF a[1] < b[1] THEN -1
  ELSE IF a[1] > b[1] THEN 1
  ELSE LexCompare(Tail(a), Tail(b))

\* String.prototype.localeCompare in the default locale: by letters first,
\* case only breaking ties (lower case before upper case).
localeCompare(a, b) ==
  LET byLetter == LexCompare([i \in 1..Len(a) |-> PrimaryWeight(a[i])],
                             [i \in 1..Len(b) |-> PrimaryWeight(b[i])])
      caseOf(s) == [i \in 1..Len(s) |-> IF IndexIn(Uppers, s[i]) # 0 THEN 1 ELSE 0]
  IN  IF byLetter # 0 THEN byLetter ELSE LexCompare(caseOf(a), caseOf(b))

\* The sign the comparator returns for the cells valA, valB, whose
\* numeric values (Number(valA), Number(valB)) are numA, numB.
compareValues(valA, valB, numA, numB, dir) ==
  IF ~IsNaNValue(numA) /\ ~IsNaNValue(numB)
  THEN IF dir = "asc"
       THEN NumSign(NumSub(numA, numB))
       ELSE NumSign(NumSub(numB, numA))
  ELSE IF dir = "asc"
       THEN localeCompare(String(valA), String(valB))
       ELSE localeCompare(String(valB), String(valA))

\* The comparator handed to sort (route.ts 452-466): its sign.  isNaN and
\* the subtraction both convert their operands with Number.
compareCells(valA, valB, dir) ==
  compareValues(valA, valB, ToNumber(valA), ToNumber(valB), dir)

compareRows(a, b, col, dir) == compareCells(At(a, col), At(b, col), dir)

\* Array.prototype.sort as V8 runs it on an array shorter than 64 elements
\* (one TimSort run): the leading run is counted, reversed when strictly
\* descending, and the remaining elements are inserted by binary search.
\* RunEnd: the last index of the run that starts at 1 and reaches i - 1.
RECURSIVE RunEnd(_, _, _, _, _)
RunEnd(a, i, descending, col, dir) ==
  IF i > Len(a) THEN Len(a)
  ELSE LET order == compareRows(a[i], a[i - 1], col, dir)
       IN  IF (descending /\ order >= 0) \/ (~descending /\ order < 0)
           THEN i - 1
           ELSE RunEnd(a, i + 1, descending, col, dir)

Reverse(a) == [i \in 1..Len(a) |-> a[Len(a) + 1 - i]]

\* The place of pivot in the sorted prefix a[left .. right-1].
RECURSIVE BinarySearch(_, _, _, _, _, _)
BinarySearch(a, pivot, left, right, col, dir) ==
  IF left >= right THEN left
  ELSE LET mid == left + ((right - left) \div 2)
       IN  IF compareRows(pivot, a[mid], col, dir) < 0
           THEN BinarySearch(a, pivot, left, mid, col, dir)
           ELSE BinarySearch(a, pivot, mid + 1, right, col, dir)

\* a with a[from] moved to the index to <= from.
MoveTo(a, from, to) ==
  SubSeq(a, 1, to - 1) \o <<a[from]>> \o SubSeq(a, to, from - 1)
  \o SubSeq(a, from + 1, Len(a))

\* The elements from start on are inserted one by one; b is the array
\* after the insertion of a[start] (bound once, as the loop's array is).
RECURSIVE BinaryInsertionSort(_, _, _, _)
BinaryInsertionSort(a, start, col, dir) ==
  IF start > Len(a) THEN a
  ELSE CHOOSE sorted \in
         {BinaryInsertionSort(b, start + 1, col, dir) :
            b \in {MoveTo(a, start,
                          BinarySearch(a, a[start], 1, start, col, dir))}} : TRUE

\* run and b are bound once each, as the locals of the sort are.
ArraySort(a, col, dir) ==
  IF Len(a) < 2 THEN a
  ELSE LET descending == compareRows(a[2], a[1], col, dir) < 0
           Ascending(run) == IF descending
                             THEN Reverse(SubSeq(a, 1, run))
                                  \o SubSeq(a, run + 1, Len(a))
                             ELSE a
       IN  CHOOSE sorted \in
             UNION {{BinaryInsertionSort(b, run + 1, col, dir) :
                       b \in {Ascending(run)}} :
                      run \in {RunEnd(a, 3, descending, col, dir)}} : TRUE

\* if (sortColumn !== null) rows = [...rows].sort(...)
sortRows(rows, col, dir) ==
  IF col # -1
  THEN CHOOSE sorted \in {ArraySort(copy, col, dir) : copy \in {rows}} : TRUE
  ELSE rows

\* pipeline with the columns projected before the rows are filtered.
pipeline_ProjectFirst(d, cols, text, range, selected, col, dir) ==
  sortRows(
    dateFilter(textFilter(projectColumns(Slice1(d), cols, selected), text),
               cols, range),
    col, dir)

\* The four stages in the order of the code.
pipeline(d, cols, text, range, selected, col, dir) ==
  sortRows(
    projectColumns(
      dateFilter(textFilter(Slice1(d), text), cols, range),
      cols, selected),
    col, dir)

filteredData ==
  pipeline(data, columns, filterText, dateRange, selectedColumns,
           sortColumn, sortDirection)

----------------------------------------------------------------------------
(* Pagination (route.ts 481-500) *)

Min(a, b) == IF a < b THEN a ELSE b
Max(a, b) == IF a > b THEN a ELSE b

\* Array.prototype.slice(start, end) for 0 <= start
Slice(arr, start, end) == SubSeq(arr, start + 1, Min(end, Len(arr)))

\* Math.ceil(a / b) for a >= 0, b > 0
CeilDiv(a, b) == IF a % b = 0 THEN a \div b ELSE (a \div b) + 1

\* pageOf with the page number taken as 0-based.
pageOf_ZeroBased(rows, page) ==
  LET start == page * rowsPerPage
  IN  Slice(rows, start, start + rowsPerPage)

pageOf(rows, page) ==
  LET start == (page - 1) * rowsPerPage
  IN  Slice(rows, start, start + rowsPerPage)

paginatedRows == pageOf(filteredData, currentPage)

totalPagesOf(rows) == CeilDiv(Len(rows), rowsPerPage)

totalPages == totalPagesOf(filteredData)

maxPagesToShow == 5

\* visiblePagesOf without the slide of start when end has hit totalPages.
visiblePagesOf_NoSlide(page, total) ==
  LET start == Max(1, page - 2)
      end   == Min(total, start + maxPagesToShow - 1)
  IN  [i \in 1..(end - start + 1) |-> start + (i - 1)]

visiblePagesOf(page, total) ==
  LET start0 == Max(1, page - 2)
      end    == Min(total, start0 + maxPagesToShow - 1)
      start  == IF end - start0 < maxPagesToShow - 1
                THEN Max(1, end - maxPagesToShow + 1)
                ELSE start0
  IN  [i \in 1..(end - start + 1) |-> start + (i - 1)]

visiblePages == visiblePagesOf(currentPage, totalPages)

----------------------------------------------------------------------------
(* The chart series (route.ts 507-529) *)

\* chartLabels without the columns.includes(xColumn) test.
chartLabels_Unchecked(d, cols, x) ==
  IF x # sEmpty
  THEN [i \in 1..Len(Slice1(d)) |-> At(Slice1(d)[i], indexOf(cols, x))]
  ELSE <<>>

\* labels: xColumn && columns.includes(xColumn) ? ... : []
chartLabels(d, cols, x) ==
  IF x # sEmpty /\ indexOf(cols, x) # -1
  THEN [i \in 1..Len(Slice1(d)) |-> At(Slice1(d)[i], indexOf(cols, x))]
  ELSE <<>>

\* datasets[0].data: yColumn && columns.includes(yColumn) ? ... : []
chartValues(d, cols, y) ==
  IF y # sEmpty /\ indexOf(cols, y) # -1
  THEN [i \in 1..Len(Slice1(d)) |-> ToNumber(At(Slice1(d)[i], indexOf(cols, y)))]
  ELSE <<>>

chartData ==
  [labels |-> chartLabels(data, columns, xColumn),
   label  |-> yColumn,
   data   |-> chartValues(data, columns, yColumn)]

\* renderChart: the component drawn for chartType (Bar by default).
renderChart ==
  IF chartType = sLine THEN "Line"
  ELSE IF chartType = sPie THEN "Pie"
  ELSE IF chartType = sDonut THEN "Doughnut"
  ELSE "Bar"

----------------------------------------------------------------------------
(* The directives of the table view *)

\* setFilterText with the page put back to 1.
setFilterText_ResetsPage(text) ==
  /\ filterText' = text
  /\ currentPage' = 1
  /\ alert' = "none"
  /\ last' = "setFilterText"
  /\ UNCHANGED <<data, columns, xColumn, yColumn, chartType, instruction,
                 metrics, sortColumn, sortDirection, dateRange,
                 selectedColumns, isLoading, pending, ticks>>

\* onChange of the filter box (route.ts 837)
setFilterText(text) ==
  /\ filterText' = text
  /\ alert' = "none"
  /\ last' = "setFilterText"
  /\ UNCHANGED <<data, columns, xColumn, yColumn, chartType, instruction,
                 metrics, sortColumn, sortDirection, currentPage, dateRange,
                 selectedColumns, isLoading, pending, ticks>>

\* onChange of the two date inputs (route.ts 770, 776); shown when
\* data.length > 0
setDateRangeStart(v) ==
  /\ Len(data) > 0
  /\ dateRange' = [dateRange EXCEPT !.start = v]
  /\ alert' = "none"
  /\ last' = "setDateRange"
  /\ UNCHANGED <<data, columns, xColumn, yColumn, chartType, instruction,
                 metrics, filterText, sortColumn, sortDirection, currentPage,
                 selectedColumns, isLoading, pending, ticks>>

setDateRangeEnd(v) ==
  /\ Len(data) > 0
  /\ dateRange' = [dateRange EXCEPT !.end = v]
  /\ alert' = "none"
  /\ last' = "setDateRange"
  /\ UNCHANGED <<data, columns, xColumn, yColumn, chartType, instruction,
                 metrics, filterText, sortColumn, sortDirection, currentPage,
                 selectedColumns, isLoading, pending, ticks>>

\* onChange of the column list (route.ts 788-791): the selected options in
\* the order of the header; shown when data.length > 0
setSelectedColumns(selected) ==
  /\ Len(data) > 0
  /\ selectedColumns' = selected
  /\ alert' = "none"
  /\ last' = "setSelectedColumns"
  /\ UNCHANGED <<data, columns, xColumn, yColumn, chartType, instruction,
                 metrics, filterText, sortColumn, sortDirection, currentPage,
                 dateRange, isLoading, pending, ticks>>

\* handleSort with the direction kept when the column is clicked again.
handleSort_NoToggle(colIndex) ==
  /\ Len(data) > 0
  /\ colIndex \in 0..(Len(IF Len(selectedColumns) > 0
                          THEN selectedColumns ELSE columns) - 1)
  /\ sortColumn' = colIndex
  /\ sortDirection' = (IF sortColumn = colIndex THEN sortDirection ELSE "asc")
  /\ alert' = "none"
  /\ last' = "handleSort"
  /\ UNCHANGED <<data, columns, xColumn, yColumn, chartType, instruction,
                 metrics, filterText, currentPage, dateRange,
                 selectedColumns, isLoading, pending, ticks>>

\* onClick of a column head (route.ts 383-394, 849-852), idx being a
\* position of the displayed header; shown when data.length > 0
handleSort(colIndex) ==
  /\ Len(data) > 0
  /\ colIndex \in 0..(Len(IF Len(selectedColumns) > 0
                          THEN selectedColumns ELSE columns) - 1)
  /\ IF sortColumn = colIndex
     THEN /\ sortDirection' = (IF sortDirection = "asc" THEN "desc" ELSE "asc")
          /\ UNCHANGED sortColumn
     ELSE /\ sortColumn' = colIndex
          /\ sortDirection' = "asc"
  /\ alert' = "none"
  /\ last' = "handleSort"
  /\ UNCHANGED <<data, columns, xColumn, yColumn, chartType, instruction,
                 metrics, filterText, currentPage, dateRange,
                 selectedColumns, isLoading, pending, ticks>>

\* onClick of a page button (route.ts 889-902): one button per visible
\* page, shown when data.length > 0
setCurrentPage(page) ==
  /\ Len(data) > 0
  /\ includes(visiblePages, page)
  /\ currentPage' = page
  /\ alert' = "none"
  /\ last' = "setCurrentPage"
  /\ UNCHANGED <<data, columns, xColumn, yColumn, chartType, instruction,
                 metrics, filterText, sortColumn, sortDirection, dateRange,
                 selectedColumns, isLoading, pending, ticks>>

----------------------------------------------------------------------------
(* Uploads and timer ticks: the metrics *)

MaxMetricRows == 2

hExample == <<sDate, sRevenue, sUsers>>
hAll     == <<sRevenue, sUsers, sConversions, sGrowth>>
hLower   == <<sLowRevenue, sGrowth>>

\* The rows a table with header h is built from (one of them ragged).
MetricRowsOf(h) ==
  IF h = hExample THEN {<<sDay1, s100, s5>>, <<sDay2, s200, s10>>}
  ELSE IF h = hAll THEN {<<s100, s5, s7, s1p5>>, <<s1p5, s1p5, sAbc, sNeg3>>}
  ELSE IF h = hLower THEN {<<s7>>}
  ELSE {<<s100>>}

MetricTables ==
  UNION {{<<h>> \o rows : rows \in SeqUpTo(MetricRowsOf(h), MaxMetricRows)} :
         h \in {hExample, hAll, hLower, <<>>}}

NextMetrics ==
  \/ \E tbl \in MetricTables : handleFileUpload(tbl)
  \/ Tick

SpecMetrics == Init /\ [][NextMetrics]_vars

----------------------------------------------------------------------------
(* Claims about the metrics *)

\* C1: whenever the current Table has no data rows (nothing uploaded, or a
\* header only), the Metrics are all zero.  The code keeps the metrics of
\* the previous table when a header-only table replaces it.
C1_NoRowsZeroMetrics == Len(data) <= 1 => metrics = ZeroMetrics

\* What the claim C2 says of the current table: the sum of the cells of
\* the column called name, an unparsable or missing cell counting 0, and 0
\* for every row when no column has that exact name.
CellValue(cell, kind) ==
  LET v == IF kind = "int" THEN ParseInt(cell) ELSE ParseFloat(cell)
  IN  IF IsNaNValue(v) THEN Int2Num(0) ELSE v

RECURSIVE ColumnTotalFrom(_, _, _)
ColumnTotalFrom(name, kind, i) ==
  IF i > Len(data) THEN Int2Num(0)
  ELSE LET pos  == {j \in 1..Len(columns) : columns[j] = name}
           here == IF pos = {} THEN Int2Num(0)
                   ELSE LET j == CHOOSE k \in pos : \A m \in pos : k <= m
                        IN  IF j <= Len(data[i])
                            THEN CellValue(data[i][j], kind)
                            ELSE Int2Num(0)
       IN  NumAdd(here, ColumnTotalFrom(name, kind, i + 1))

ColumnTotal(name, kind) == ColumnTotalFrom(name, kind, 2)

\* m is the metrics the claim C2 gives for the current table: three sums,
\* and growth * (row count) = the sum of the Growth cells.
IsClaimedMetrics(m) ==
  /\ m.revenue = ColumnTotal(sRevenue, "float")
  /\ m.users = ColumnTotal(sUsers, "int")
  /\ m.conversions = ColumnTotal(sConversions, "int")
  /\ ~IsNaNValue(m.growth)
  /\ m.growth.n * (Len(data) - 1) * ColumnTotal(sGrowth, "float").d
       = ColumnTotal(sGrowth, "float").n * m.growth.d

ExampleTable ==
  <<hExample, <<sDay1, s100, s5>>, <<sDay2, s200, s10>>>>

ExampleMetrics ==
  [revenue |-> Int2Num(300), users |-> Int2Num(15),
   conversions |-> Int2Num(0), growth |-> Int2Num(0)]

\* C2: for every table with at least one data row the metrics computation
\* yields revenue, users and conversions as the sums of their columns and
\* growth as the sum of the Growth column over the row count, unparsable
\* cells and absent columns counting 0 (users and conversions read each
\* cell with parseInt); the effect stores that result whenever it runs the
\* computation (the header is not empty); the example table gives
\* {300, 15, 0, 0}.
C2_MetricsOfTable ==
  Len(data) > 1 =>
    /\ IsClaimedMetrics(computeMetrics(data, columns))
    /\ (last = "upload" /\ Len(columns) > 0) => IsClaimedMetrics(metrics)
    /\ (last = "upload" /\ data = ExampleTable) => metrics = ExampleMetrics

C2_Witness ==
  /\ last = "upload"
  /\ data = ExampleTable
  /\ metrics = ExampleMetrics

----------------------------------------------------------------------------
(* Uploads, filter text and date range: the row filters *)

MaxFilterRows == 2

sTIME == <<"T", "I", "M", "E">>
sCap  == <<"A", "b", "c">>

hNoDate   == <<sName, sLowRevenue>>
hTwoDates == <<sUpdated, sDate>>
hTime     == <<sTIME>>

FilterRowsOf(h) ==
  IF h = hExample THEN {<<sDay1, s100, s5>>, <<sDay2, s200, s10>>}
  ELSE IF h = hNoDate THEN {<<sCap, s5>>, <<sDay1, s10>>}
  ELSE IF h = hTwoDates THEN {<<sDay1, sDay3>>}
  ELSE {<<sDay2>>, <<sEmpty>>}

FilterTables ==
  UNION {{<<h>> \o rows : rows \in SeqUpTo(FilterRowsOf(h), MaxFilterRows)} :
         h \in {hExample, hNoDate, hTwoDates, hTime}}

FilterTexts == {sEmpty, <<"A", "B">>, sDay2}

\* What an <input type="date"> holds: "" or "YYYY-MM-DD".
StartInputs == {sEmpty, sDay2}
EndInputs   == {sEmpty, sDay2}

\* The header without its column drop (the whole header for drop = 0).
Without(cols, drop) ==
  SubSeq(cols, 1, drop - 1) \o SubSeq(cols, drop + 1, Len(cols))

NextFilter ==
  \/ \E tbl \in FilterTables : handleFileUpload(tbl)
  \/ \E drop \in 0..Len(columns) : setSelectedColumns(Without(columns, drop))
  \/ \E text \in FilterTexts : setFilterText(text)
  \/ \E v \in StartInputs : setDateRangeStart(v)
  \/ \E v \in EndInputs : setDateRangeEnd(v)

SpecFilter == Init /\ [][NextFilter]_vars

----------------------------------------------------------------------------
(* Claims about the row filters *)

Range(seq) == {seq[i] : i \in 1..Len(seq)}

\* sub is a subsequence of seq: its elements occur in seq in the same order.
RECURSIVE IsSubsequence(_, _)
IsSubsequence(sub, seq) ==
  IF Len(sub) = 0 THEN TRUE
  ELSE IF Len(seq) = 0 THEN FALSE
  ELSE IF sub[1] = seq[1] THEN IsSubsequence(Tail(sub), Tail(seq))
  ELSE IsSubsequence(sub, Tail(seq))

\* The number of indices of seq whose element satisfies the set good.
CountIn(seq, good) == Cardinality({i \in 1..Len(seq) : seq[i] \in good})

\* The rows the view shows with the text t in the filter box, the other
\* directives as they are.
ViewWithText(t) ==
  pipeline(data, columns, t, dateRange, selectedColumns,
           sortColumn, sortDirection)

\* The rows of the table that the text t keeps, by the claim's rule: some
\* cell, lower-cased, contains the lower-cased text.
KeptByText(t) ==
  {r \in Range(Slice1(data)) :
     \E i \in 1..Len(r) :
       \E k \in 0..Len(r[i]) :
         /\ k + Len(t) <= Len(r[i])
         /\ ToLowerCase(SubSeq(r[i], k + 1, k + Len(t))) = ToLowerCase(t)}

\* C3: the text filter is monotonic.  With empty text every data row is
\* kept; with any text the kept rows are a subsequence of the rows kept
\* with empty text, and are exactly the rows with a cell that contains the
\* text case-insensitively.
C3_TextFilterMonotonic ==
  LET all  == Slice1(data)
      kept == textFilter(all, filterText)
  IN  /\ textFilter(all, sEmpty) = all
      /\ IsSubsequence(kept, all)
      /\ Range(kept) = KeptByText(filterText)
      /\ Len(kept) = CountIn(all, KeptByText(filterText))
      /\ IsSubsequence(filteredData, ViewWithText(sEmpty))
      /\ (data = ExampleTable /\ filterText = sDay2 /\ dateRange.start = sEmpty
            /\ dateRange.end = sEmpty /\ selectedColumns = columns)
           => filteredData = <<<<sDay2, s200, s10>>>>

C3_Witness ==
  /\ last = "setFilterText"
  /\ filterText = <<"A", "B">>
  /\ Len(data) = 3
  /\ Len(filteredData) = 1
  /\ filteredData[1] = <<sCap, s5>>

\* The date column of the claims C4 and C5: the first header column whose
\* lower-cased name contains "date" or "time" (0 when there is none).
ClaimedDateColumn ==
  LET hit == {j \in 1..Len(columns) :
                \/ Includes(ToLowerCase(columns[j]), ToLowerCase(sDate))
                \/ Includes(ToLowerCase(columns[j]), ToLowerCase(sTIME))}
  IN  IF hit = {} THEN 0 ELSE CHOOSE j \in hit : \A k \in hit : j <= k

Unparsable(cell) == IsNaNValue(DateTime(cell))

\* C4: a row whose date cell fails to parse passes the date-range filter
\* for every setting of start and end.  The code drops it as soon as start
\* or end is set: the Invalid Date compares false and nothing throws.
C4_UnparsableDatePasses ==
  \A i \in 2..Len(data) :
    (ClaimedDateColumn # 0 /\ Unparsable(At(data[i], ClaimedDateColumn - 1)))
      => data[i] \in Range(dateFilter(Slice1(data), columns, dateRange))

\* The order of two "YYYY-MM-DD" dates, read off their digits.
DateKey(s) == [i \in 1..8 |-> DigitVal(s[<<1, 2, 3, 4, 6, 7, 9, 10>>[i]])]

DateLeq(a, b) == LexCompare(DateKey(a), DateKey(b)) <= 0

\* The rule of the claim C5 for a row whose date cell v parses.
ClaimedInRange(v) ==
  LET noStart == dateRange.start = sEmpty
      noEnd   == dateRange.end = sEmpty
  IN  \/ noStart /\ noEnd
      \/ ~noStart /\ noEnd /\ DateLeq(dateRange.start, v)
      \/ noStart /\ ~noEnd /\ DateLeq(v, dateRange.end)
      \/ ~noStart /\ ~noEnd /\ DateLeq(dateRange.start, v)
           /\ DateLeq(v, dateRange.end)

\* C5: the date-range filter reads the first header column whose name
\* contains "date" or "time" case-insensitively and keeps every row when
\* there is none; a row whose cell there parses to v is kept iff v lies in
\* the range, bounds inclusive (an unset bound not constraining); with
\* start = 2024-01-02 and no end the example table keeps only its second
\* row.
C5_DateRangeFilter ==
  LET all  == Slice1(data)
      kept == dateFilter(all, columns, dateRange)
  IN  /\ IsSubsequence(kept, all)
      /\ ClaimedDateColumn = 0 => kept = all
      /\ ClaimedDateColumn # 0 =>
           \A i \in 1..Len(all) :
             LET v == At(all[i], ClaimedDateColumn - 1)
             IN  ~Unparsable(v) =>
                   /\ (all[i] \in Range(kept)) = ClaimedInRange(v)
                   /\ ClaimedInRange(v) =>
                        CountIn(kept, {all[i]}) = CountIn(all, {all[i]})
      /\ (data = ExampleTable /\ dateRange = [start |-> sDay2, end |-> sEmpty])
           => kept = <<<<sDay2, s200, s10>>>>

C5_Witness ==
  /\ last = "setDateRange"
  /\ selectedColumns = columns
  /\ data = ExampleTable
  /\ dateRange = [start |-> sDay2, end |-> sEmpty]
  /\ filterText = sEmpty
  /\ filteredData = <<<<sDay2, s200, s10>>>>

----------------------------------------------------------------------------
(* Sorting an uploaded table *)

MaxSortRows == 4

s3 == <<"3">>
sTagA == <<"a">>
sTagB == <<"b">>

hSort == <<sName, sUpdated>>

\* Rows with a tag and a key; the keys mix numbers and a text that is no
\* number.
SortRows == {<<sTagA, s3>>, <<sTagB, s3>>, <<sTagA, s100>>, <<sTagA, sDay1>>}

SortTables == {<<hSort>> \o rows : rows \in SeqUpTo(SortRows, MaxSortRows)}

InitSort == \E tbl \in SortTables : Uploaded(tbl)

NextSort == \E idx \in 0..1 : handleSort(idx)

SpecSort == InitSort /\ [][NextSort]_vars

\* The rows of seq whose key compares equal to the key of r, in order.
TiesOf(seq, r) ==
  Filter(seq, [x \in Range(seq) |->
                 compareRows(x, r, sortColumn, sortDirection) = 0])

SortIdempotent ==
  sortRows(filteredData, sortColumn, sortDirection) = filteredData

SortKeepsTies ==
  \A r \in Range(Slice1(data)) : TiesOf(filteredData, r) = TiesOf(Slice1(data), r)

\* C6: for every row sequence and every sort column and
\* direction, sorting the sorted rows again changes nothing, and rows whose
\* keys compare equal keep their relative order.
C6_SortIdempotentStable == SortIdempotent /\ SortKeepsTies

----------------------------------------------------------------------------
(* Paging through an uploaded table *)

MaxPageRows == 21

\* The decimal text of a natural number.
RECURSIVE NatText(_)
NatText(i) ==
  IF i < 10 THEN <<Digits[i + 1]>>
  ELSE NatText(i \div 10) \o <<Digits[(i % 10) + 1]>>

\* The one-column table whose rows are "1" .. "n".
PageTable(n) == <<<<sName>>>> \o [i \in 1..n |-> <<NatText(i)>>]

InitPage == \E n \in 0..MaxPageRows : Uploaded(PageTable(n))

NextPage ==
  \/ \E page \in 1..(MaxPageRows + 1) : setCurrentPage(page)
  \/ \E text \in {sEmpty, <<"1">>} : setFilterText(text)
  \/ handleSort(0)

SpecPage == InitPage /\ [][NextPage]_vars

RECURSIVE ConcatPages(_, _, _)
ConcatPages(rows, from, to) ==
  IF from > to THEN <<>>
  ELSE pageOf(rows, from) \o ConcatPages(rows, from + 1, to)

\* C7: with n rows in the view and 10 rows a page, totalPages is the
\* ceiling of n / 10 (0 for n = 0); the pages 1 .. totalPages, put end to
\* end, are the view itself, row (p-1)*10 + i of the view being row i of
\* page p; every page but the last holds 10 rows and the last holds 1 to 10.
C7_PagesPartitionView ==
  LET rows == filteredData
      n    == Len(rows)
  IN  /\ totalPages * 10 >= n
      /\ (totalPages - 1) * 10 < n \/ (n = 0 /\ totalPages = 0)
      /\ ConcatPages(rows, 1, totalPages) = rows
      /\ \A p \in 1..totalPages :
           /\ Len(pageOf(rows, p)) = (IF p < totalPages THEN 10 ELSE n - (p - 1) * 10)
           /\ Len(pageOf(rows, p)) \in 1..10
           /\ \A i \in 1..Len(pageOf(rows, p)) :
                pageOf(rows, p)[i] = rows[(p - 1) * 10 + i]
      /\ currentPage \in 1..totalPages
           => paginatedRows = SubSeq(rows, (currentPage - 1) * 10 + 1,
                                     Min(currentPage * 10, n))

C7_Witness ==
  /\ last = "setCurrentPage"
  /\ Len(filteredData) = 21
  /\ totalPages = 3
  /\ currentPage = 3
  /\ paginatedRows = <<<<NatText(21)>>>>

----------------------------------------------------------------------------
(* The chart instruction (route.ts 3-74, 638-671) *)

\* onChange of the instruction box (route.ts 727)
setInstruction(text) ==
  /\ instruction' = text
  /\ alert' = "none"
  /\ last' = "setInstruction"
  /\ UNCHANGED <<data, columns, xColumn, yColumn, chartType, metrics,
                 filterText, sortColumn, sortDirection, currentPage, dateRange,
                 selectedColumns, isLoading, pending, ticks>>

\* The text of an error field, held whole.
sFailed      == <<"Failed to interpret instruction">>
sNoKey       == <<"MISTRAL_API_KEY is not set">>
sServiceErr  == <<"Mistral API error">>
sInvalidJSON == <<"Invalid JSON response">>

\* The body of the outer catch block: {error: ...} has none of the three
\* fields of a selection.
ErrorBody ==
  [kind |-> "object", error |-> sFailed,
   chartType |-> UNDEF, xColumn |-> UNDEF, yColumn |-> UNDEF]

\* interpretInstruction with the button left enabled while isLoading.
interpretInstruction_ButtonEnabled ==
  /\ IF instruction = sEmpty \/ Len(columns) = 0
     THEN /\ alert' = "Please upload a dataset first."
          /\ UNCHANGED pending
          /\ isLoading' = FALSE
     ELSE /\ alert' = "none"
          /\ pending' = Append(pending, [stage       |-> "request",
                                         instruction |-> instruction,
                                         columns     |-> columns])
          /\ isLoading' = TRUE
  /\ last' = "interpretInstruction"
  /\ UNCHANGED <<data, columns, xColumn, yColumn, chartType, instruction,
                 metrics, filterText, sortColumn, sortDirection, currentPage,
                 dateRange, selectedColumns, ticks>>

\* interpretInstruction up to its await of fetch; the Generate Chart button
\* is disabled while isLoading.  On the early return the finally block
\* still runs.
interpretInstruction ==
  /\ ~isLoading
  /\ IF instruction = sEmpty \/ Len(columns) = 0
     THEN /\ alert' = "Please upload a dataset first."
          /\ UNCHANGED pending
          /\ isLoading' = FALSE
     ELSE /\ alert' = "none"
          /\ pending' = Append(pending, [stage       |-> "request",
                                         instruction |-> instruction,
                                         columns     |-> columns])
          /\ isLoading' = TRUE
  /\ last' = "interpretInstruction"
  /\ UNCHANGED <<data, columns, xColumn, yColumn, chartType, instruction,
                 metrics, filterText, sortColumn, sortDirection, currentPage,
                 dateRange, selectedColumns, ticks>>

\* NextResponse.json(body, {status}) as fetch hands it to the client, met
\* being what the handler met on its way.
Response(status, body, met) ==
  [stage |-> "response", status |-> status, ok |-> status \in 200..299,
   body |-> body, met |-> met]

\* routeResponse with the inner catch passing the raw content on.
routeResponse_RawPassedOn(outcome) ==
  IF outcome.request = "unparsable" THEN Response(500, ErrorBody, outcome)
  ELSE IF ~outcome.apiKey
  THEN Response(500, [ErrorBody EXCEPT !.error = sNoKey], outcome)
  ELSE IF outcome.request = "no columns" \/ outcome.service = "throws"
  THEN Response(500, ErrorBody, outcome)
  ELSE IF outcome.service = "non-2xx"
  THEN Response(500, [ErrorBody EXCEPT !.error = sServiceErr], outcome)
  ELSE IF outcome.serviceBody = "unparsable"
  THEN Response(500, ErrorBody, outcome)
  ELSE IF outcome.serviceBody = "no content" \/ outcome.content = "unparsable"
  THEN Response(200, [ErrorBody EXCEPT !.error = UNDEF], outcome)
  ELSE Response(200, outcome.parsed, outcome)

\* The answer of the route handler POST, statement by statement: req.json()
\* (5), the key (8-13), columns.join (19), the fetch of the language service
\* (34-45), !response.ok (47-53), response.json() (55), JSON.parse of the
\* message content, undefined when the body has none (56-66); whatever
\* throws outside the inner try ends in the outer catch (67-73).
routeResponse(outcome) ==
  IF outcome.request = "unparsable" THEN Response(500, ErrorBody, outcome)
  ELSE IF ~outcome.apiKey
  THEN Response(500, [ErrorBody EXCEPT !.error = sNoKey], outcome)
  ELSE IF outcome.request = "no columns" \/ outcome.service = "throws"
  THEN Response(500, ErrorBody, outcome)
  ELSE IF outcome.service = "non-2xx"
  THEN Response(500, [ErrorBody EXCEPT !.error = sServiceErr], outcome)
  ELSE IF outcome.serviceBody = "unparsable"
  THEN Response(500, ErrorBody, outcome)
  ELSE IF outcome.serviceBody = "no content" \/ outcome.content = "unparsable"
  THEN Response(500, [ErrorBody EXCEPT !.error = sInvalidJSON], outcome)
  ELSE Response(200, outcome.parsed, outcome)

\* The route handler serves the request in flight.
POST(outcome) ==
  /\ pending # <<>>
  /\ Head(pending).stage = "request"
  /\ pending' = <<routeResponse(outcome)>> \o Tail(pending)
  /\ alert' = "none"
  /\ last' = "POST"
  /\ UNCHANGED <<data, columns, xColumn, yColumn, chartType, instruction,
                 metrics, filterText, sortColumn, sortDirection, currentPage,
                 dateRange, selectedColumns, isLoading, ticks>>

\* The request does not reach the handler: fetch rejects (a network error),
\* or what answers in its place sends a body that is no JSON.
fetchFails(how) ==
  /\ pending # <<>>
  /\ Head(pending).stage = "request"
  /\ pending' = <<(IF how = "rejected"
                   THEN [Response(0, ErrorBody, how) EXCEPT !.stage = "rejected"]
                   ELSE Response(200, [ErrorBody EXCEPT !.kind = "unparsable"],
                                 how))>>
                 \o Tail(pending)
  /\ alert' = "none"
  /\ last' = "fetchFails"
  /\ UNCHANGED <<data, columns, xColumn, yColumn, chartType, instruction,
                 metrics, filterText, sortColumn, sortDirection, currentPage,
                 dateRange, selectedColumns, isLoading, ticks>>

\* A JavaScript value read as a condition: undefined and "" are falsy.
Truthy(v) == v # UNDEF /\ v # sEmpty

\* resolved with chartType alone looked at.
resolved_ChartTypeOnly(msg) ==
  /\ msg.stage = "response"
  /\ msg.ok
  /\ msg.body.kind = "object"
  /\ Truthy(msg.body.chartType)

\* The path to the three setters: fetch resolved, res.ok, res.json()
\* resolved, and result.chartType && result.xColumn && result.yColumn.
resolved(msg) ==
  /\ msg.stage = "response"
  /\ msg.ok
  /\ msg.body.kind = "object"
  /\ Truthy(msg.body.chartType)
  /\ Truthy(msg.body.xColumn)
  /\ Truthy(msg.body.yColumn)

\* The alert of the else branch, or of the catch block (a rejected fetch,
\* !res.ok, res.json() rejecting, a property read of null).
failureAlert(msg) ==
  IF msg.stage = "response" /\ msg.ok /\ msg.body.kind = "object"
  THEN "Couldn't understand the instruction"
  ELSE "Error processing instruction. Please try again."

\* interpretInstruction from the await of fetch to its end.
interpretInstructionResult ==
  /\ pending # <<>>
  /\ Head(pending).stage # "request"
  /\ IF resolved(Head(pending))
     THEN /\ chartType' = Head(pending).body.chartType
          /\ xColumn' = Head(pending).body.xColumn
          /\ yColumn' = Head(pending).body.yColumn
          /\ alert' = "none"
     ELSE /\ UNCHANGED <<chartType, xColumn, yColumn>>
          /\ alert' = failureAlert(Head(pending))
  /\ isLoading' = FALSE
  /\ pending' = Tail(pending)
  /\ last' = "response"
  /\ UNCHANGED <<data, columns, instruction, metrics, filterText, sortColumn,
                 sortDirection, currentPage, dateRange, selectedColumns, ticks>>

----------------------------------------------------------------------------
(* Uploads and instructions: the chart *)

MaxChartRows == 2

hChart == <<sDate, sRevenue>>
hOther == <<sName, sUsers>>
hBlank == <<sEmpty, sRevenue>>

ChartRowsOf(h) ==
  IF h = hChart THEN {<<sDay1, s100>>, <<sDay2, sAbc>>}
  ELSE IF h = hOther THEN {<<sAbc, s5>>}
  ELSE {<<s7, s200>>}

ChartTables ==
  UNION {{<<h>> \o rows : rows \in SeqUpTo(ChartRowsOf(h), MaxChartRows)} :
           h \in {hChart, hOther, hBlank}}

sInstruction == <<"l", "i", "n", "e">>

\* What the language service's message can parse to: null, or an object
\* with each of the three fields present, empty or absent.
ParsedBodies ==
  {[ErrorBody EXCEPT !.kind = "null"]}
  \cup {[kind |-> "object", error |-> UNDEF,
          chartType |-> t, xColumn |-> x, yColumn |-> y] :
          t \in {sLine, sScatter, sEmpty, UNDEF},
          x \in {sDate, UNDEF},
          y \in {sRevenue, UNDEF}}

\* What the route handler meets: the request it is sent, the key in its
\* environment, the language service's answer, and what the message
\* content parses to.
Served(parsed) ==
  [request |-> "ok", apiKey |-> TRUE, service |-> "ok",
   serviceBody |-> "content", content |-> "json", parsed |-> parsed]

Outcomes ==
  {[Served(ErrorBody) EXCEPT !.service = "throws"]}
  \cup {Served(b) : b \in ParsedBodies}

NextChart ==
  \/ \E tbl \in ChartTables : handleFileUpload(tbl)
  \/ \E text \in {sEmpty, sInstruction} : setInstruction(text)
  \/ interpretInstruction
  \/ \E outcome \in Outcomes : POST(outcome)
  \/ \E how \in {"rejected", "unparsable"} : fetchFails(how)
  \/ interpretInstructionResult

SpecChart == Init /\ [][NextChart]_vars

----------------------------------------------------------------------------
(* Claims about the chart *)

InHeader(name) == \E i \in 1..Len(columns) : columns[i] = name

\* The cell of data row i (1-based) under the first column called name.
CellUnder(name, i) ==
  LET c == CHOOSE k \in 1..Len(columns) :
             columns[k] = name /\ \A j \in 1..(k - 1) : columns[j] # name
  IN  IF c <= Len(data[i + 1]) THEN data[i + 1][c] ELSE UNDEF

DataRowCount == IF Len(data) = 0 THEN 0 ELSE Len(data) - 1

\* C8: a selection whose xColumn or yColumn is not in the header gives
\* empty labels and an empty dataset; when both are in the header, labels
\* and dataset have one entry per data row each.
C8_MissingColumnEmptySeries ==
  /\ (~InHeader(xColumn) \/ ~InHeader(yColumn))
       => chartData.labels = <<>> /\ chartData.data = <<>>
  /\ (InHeader(xColumn) /\ InHeader(yColumn))
       => /\ Len(chartData.labels) = DataRowCount
          /\ Len(chartData.data) = DataRowCount

\* C8 as amended: labels is empty when xColumn is "" or not in the header
\* and else holds the xColumn cell of every data row; the dataset is empty
\* when yColumn is "" or not in the header and else holds the number of the
\* yColumn cell of every data row; the two do not depend on each other, nor
\* on chartType.
C8_SeriesPerColumn ==
  /\ (xColumn = sEmpty \/ ~InHeader(xColumn)) => chartData.labels = <<>>
  /\ (xColumn # sEmpty /\ InHeader(xColumn))
       => /\ Len(chartData.labels) = DataRowCount
          /\ \A i \in 1..DataRowCount :
               chartData.labels[i] = CellUnder(xColumn, i)
  /\ (yColumn = sEmpty \/ ~InHeader(yColumn)) => chartData.data = <<>>
  /\ (yColumn # sEmpty /\ InHeader(yColumn))
       => /\ Len(chartData.data) = DataRowCount
          /\ \A i \in 1..DataRowCount :
               chartData.data[i] = ToNumber(CellUnder(yColumn, i))

\* A selection made for one table, then an upload whose header lacks the
\* x column but has the y column.
C8_Witness ==
  /\ last = "upload"
  /\ xColumn = sDate
  /\ yColumn = sRevenue
  /\ columns = hBlank
  /\ Len(data) = 3
  /\ chartData.labels = <<>>
  /\ chartData.data = <<Int2Num(200), Int2Num(200)>>

\* C9: when the answer is successful and carries chartType, xColumn and
\* yColumn, the selection becomes exactly these three; when the call fails
\* or a field is missing, the three keep their values and an alert is
\* raised.
C9_AllOrNothing ==
  [][last' = "response" =>
       LET msg      == Head(pending)
           body     == msg.body
           success  == msg.stage = "response" /\ msg.ok /\ body.kind = "object"
           complete == /\ success
                       /\ Truthy(body.chartType)
                       /\ Truthy(body.xColumn)
                       /\ Truthy(body.yColumn)
       IN  IF complete
           THEN <<chartType', xColumn', yColumn'>>
                  = <<body.chartType, body.xColumn, body.yColumn>>
           ELSE /\ <<chartType', xColumn', yColumn'>>
                     = <<chartType, xColumn, yColumn>>
                /\ alert' # "none"]_vars

C9_Witness ==
  /\ last = "response"
  /\ alert = "none"
  /\ <<chartType, xColumn, yColumn>> = <<sLine, sDate, sRevenue>>
  /\ ~isLoading
  /\ pending = <<>>

\* C10: chartType is one of bar, line, pie, donut in every reachable state.
C10_ChartTypeKnown == chartType \in {sBar, sLine, sPie, sDonut}

----------------------------------------------------------------------------
(* Uploads that fail (route.ts 248-313) *)

\* The ways handleFileUpload ends without reaching the three setters: no
\* file in the event (251), result.errors non-empty (262), Papa's error
\* callback (273), an exception while reading the workbook (296),
\* reader.onerror (301), an extension that is neither csv nor xlsx (306) and
\* an exception in the handler itself (309).
UploadFailures ==
  {"no file", "csv errors", "csv error callback", "xlsx exception",
   "read error", "extension", "exception"}

\* The alert() each of them raises; no file selected is console.warn only.
uploadAlert(how) ==
  CASE how = "no file"            -> "none"
    [] how = "csv errors"         -> "Error parsing CSV file. Please check the file format."
    [] how = "csv error callback" -> "Error parsing CSV file. Please check the file format."
    [] how = "xlsx exception"     -> "Error parsing XLSX file. Please check the file format."
    [] how = "read error"         -> "Error reading file. Please try again."
    [] how = "extension"          -> "Please upload a CSV or XLSX file"
    [] how = "exception"          -> "Error uploading file. Please try again."

\* handleFileUploadFailure with the complete callback calling the setters
\* before it looks at result.errors: the header row alone is taken over.
handleFileUploadFailure_SettersFirst(how) ==
  /\ alert' = uploadAlert(how)
  /\ last' = how
  /\ IF how = "csv errors" /\ Len(data) > 0
     THEN /\ data' = <<data[1]>>
          /\ columns' = data[1]
          /\ selectedColumns' = data[1]
     ELSE UNCHANGED <<data, columns, selectedColumns>>
  /\ UNCHANGED <<xColumn, yColumn, chartType, instruction, metrics, filterText,
                 sortColumn, sortDirection, currentPage, dateRange, isLoading,
                 pending, ticks>>

\* A run of handleFileUpload, callbacks included, that ends in the way how.
handleFileUploadFailure(how) ==
  /\ alert' = uploadAlert(how)
  /\ last' = how
  /\ UNCHANGED <<data, columns, selectedColumns, xColumn, yColumn, chartType,
                 instruction, metrics, filterText, sortColumn, sortDirection,
                 currentPage, dateRange, isLoading, pending, ticks>>

NextUpload ==
  \/ \E tbl \in ChartTables : handleFileUpload(tbl)
  \/ \E how \in UploadFailures : handleFileUploadFailure(how)
  \/ \E drop \in 0..Len(columns) : setSelectedColumns(Without(columns, drop))

SpecUpload == Init /\ [][NextUpload]_vars

\* C11: every upload that fails (CSV parse errors, a file-read error, a
\* spreadsheet parse exception, an unsupported extension, no file selected)
\* raises an alert and leaves data, columns and selectedColumns as they
\* were.
C11_FailedUploadReportedTableKept ==
  [][last' \in UploadFailures =>
       /\ alert' # "none"
       /\ <<data', columns', selectedColumns'>>
            = <<data, columns, selectedColumns>>]_vars

\* C11 as amended: every upload that fails leaves data, columns and
\* selectedColumns as they were, and raises an alert unless it failed for
\* want of a selected file, which is logged to the console only.
C11_FailedUploadTableKept ==
  [][last' \in UploadFailures =>
       /\ <<data', columns', selectedColumns'>>
            = <<data, columns, selectedColumns>>
       /\ alert' # "none" <=> last' # "no file"]_vars

\* A CSV with parse errors is refused while a table with a narrowed column
\* selection is on display.
C11_Witness ==
  /\ last = "csv errors"
  /\ alert = "Error parsing CSV file. Please check the file format."
  /\ data = <<hChart, <<sDay1, s100>>>>
  /\ columns = hChart
  /\ selectedColumns = <<sRevenue>>

----------------------------------------------------------------------------
(* The route handler and its client (route.ts 3-74, 638-671) *)

RouteTable == <<hChart, <<sDay1, s100>>>>

LineByDate ==
  [kind |-> "object", error |-> UNDEF,
   chartType |-> sLine, xColumn |-> sDate, yColumn |-> sRevenue]

\* Every combination of a request, a key, an answer of the language service
\* and a message content.
RouteOutcomes ==
  {[request |-> q, apiKey |-> k, service |-> s, serviceBody |-> b,
    content |-> c, parsed |-> p] :
     q \in {"ok", "unparsable", "no columns"},
     k \in BOOLEAN,
     s \in {"ok", "throws", "non-2xx"},
     b \in {"content", "unparsable", "no content"},
     c \in {"json", "unparsable"},
     p \in {LineByDate, [ErrorBody EXCEPT !.kind = "null"]}}

NextRoute ==
  \/ handleFileUpload(RouteTable)
  \/ \E text \in {sEmpty, sInstruction} : setInstruction(text)
  \/ interpretInstruction
  \/ \E outcome \in RouteOutcomes : POST(outcome)
  \/ \E how \in {"rejected", "unparsable"} : fetchFails(how)
  \/ interpretInstructionResult

SpecRoute == Init /\ [][NextRoute]_vars

\* What stands between the request and a parsed message content.
Failing(met) ==
  \/ met.request # "ok"
  \/ ~met.apiKey
  \/ met.service # "ok"
  \/ met.serviceBody # "content"
  \/ met.content # "json"

\* C12: the route handler answers every request with a JSON response; when
\* the request is unusable, the key missing, the language service failing
\* or answering non-2xx, or its body or message content unparsable, the
\* status is not 2xx and the body carries an error field; otherwise, and
\* only then, the status is 2xx and the body is what the content parsed to.
\* The client leaves the selection alone and raises its error alert on
\* every response that is not 2xx.
C12_EndpointAlwaysAnswers ==
  /\ [][last' = "POST" =>
         LET r == Head(pending')
         IN  /\ r.stage = "response"
             /\ r.body.kind \in {"object", "null"}
             /\ IF Failing(r.met)
                THEN /\ r.status \notin 200..299
                     /\ r.body.kind = "object"
                     /\ Truthy(r.body.error)
                ELSE /\ r.status \in 200..299
                     /\ r.body = r.met.parsed]_vars
  /\ [][(/\ last' = "response"
         /\ Head(pending).stage = "response"
         /\ Head(pending).status \notin 200..299) =>
          /\ <<chartType', xColumn', yColumn'>> = <<chartType, xColumn, yColumn>>
          /\ alert' = "Error processing instruction. Please try again."
          /\ ~isLoading']_vars

\* The handler, without a key, has answered 500 with its error.
C12_Witness ==
  /\ last = "POST"
  /\ ~Head(pending).met.apiKey
  /\ Head(pending).met.request = "ok"
  /\ Head(pending).status = 500
  /\ Head(pending).body.error = sNoKey
  /\ isLoading

----------------------------------------------------------------------------
(* Every directive on one page: upload, filter, date range, column
   selection, sort, page and chart instruction *)

MaxViewRows == 11

hView == <<sName, sDate>>

s11 == <<"1", "1">>

\* The table of the rows "1" .. "n", the first ten dated 2024-01-01 and the
\* others 2024-01-02.
ViewTable(n) ==
  <<hView>> \o [i \in 1..n |-> <<NatText(i), IF i <= 10 THEN sDay1 ELSE sDay2>>]

ViewTables == {ViewTable(1), ViewTable(MaxViewRows)}

NextView ==
  \/ \E tbl \in ViewTables : handleFileUpload(tbl)
  \/ \E how \in {"no file", "extension"} : handleFileUploadFailure(how)
  \/ \E text \in {sEmpty, s11} : setFilterText(text)
  \/ \E v \in {sEmpty, sDay2} : setDateRangeStart(v)
  \/ setDateRangeEnd(sEmpty)
  \/ \E drop \in 0..Len(columns) : setSelectedColumns(Without(columns, drop))
  \/ \E idx \in 0..(Len(hView) - 1) : handleSort(idx)
  \/ \E page \in 1..((MaxViewRows \div rowsPerPage) + 1) : setCurrentPage(page)
  \/ setInstruction(sInstruction)
  \/ interpretInstruction
  \/ \E outcome \in {Served(LineByDate), [Served(ErrorBody) EXCEPT !.apiKey = FALSE]} :
       POST(outcome)
  \/ interpretInstructionResult

SpecView == Init /\ [][NextView]_vars


\* C13: a click on the head of the column that is the sort column flips the
\* direction and keeps the column; a click on any other column, the first
\* click ever included, makes it the sort column with direction asc; every
\* step that is not a click on a column head leaves both as they were.
C13_SortToggle ==
  [][/\ \A c \in 0..(Len(hView) - 1) :
          handleSort(c) =>
            IF sortColumn = c
            THEN /\ sortColumn' = c
                 /\ sortDirection # sortDirection'
                 /\ sortDirection' \in {"asc", "desc"}
            ELSE /\ sortColumn' = c
                 /\ sortDirection' = "asc"
     /\ last' # "handleSort" =>
          <<sortColumn', sortDirection'>> = <<sortColumn, sortDirection>>]_vars

\* The second column has been clicked twice; then a page was chosen, which
\* left the descending sort in place.
C13_Witness ==
  /\ last = "setCurrentPage"
  /\ sortColumn = 1
  /\ sortDirection = "desc"
  /\ currentPage = 2
  /\ Len(data) = MaxViewRows + 1

----------------------------------------------------------------------------
(* The four stages of the view together *)

MaxPipeRows == 2

\* A header in which a name occurs twice.
hPipe == <<sName, sDate, sName>>

PipeRows == {<<sAbc, sDay1, s5>>, <<s10, sDay2, sAbc>>}

PipeTables == {<<hPipe>> \o rows : rows \in SeqUpTo(PipeRows, MaxPipeRows)}

NextPipe ==
  \/ \E tbl \in PipeTables : handleFileUpload(tbl)
  \/ \E text \in {sEmpty, sAbc} : setFilterText(text)
  \/ \E v \in {sEmpty, sDay2} : setDateRangeStart(v)
  \/ setDateRangeEnd(sEmpty)
  \/ \E drop \in 0..Len(columns) : setSelectedColumns(Without(columns, drop))
  \/ \E idx \in 0..(Len(hPipe) - 1) : handleSort(idx)

SpecPipe == Init /\ [][NextPipe]_vars

\* The full-width data rows that satisfy the text predicate and the date
\* predicate, in the order of the table.
KeptRows ==
  LET all   == Slice1(data)
      dated == (dateRange.start # sEmpty \/ dateRange.end # sEmpty)
               /\ dateColumnIndex(columns) # -1
      Keep(row) ==
        /\ filterText # sEmpty => RowMatchesText(row, filterText)
        /\ dated => RowInDateRange(row, dateColumnIndex(columns), dateRange)
  IN  Filter(all, [r \in Range(all) |-> Keep(r)])

\* The cell of row under the first header column called name.
NamedCell(row, name) ==
  IF \E k \in 1..Len(columns) : columns[k] = name
  THEN LET c == CHOOSE k \in 1..Len(columns) :
                  columns[k] = name /\ \A j \in 1..(k - 1) : columns[j] # name
       IN  IF c <= Len(row) THEN row[c] ELSE UNDEF
  ELSE UNDEF

Projecting == Len(selectedColumns) > 0 /\ Len(selectedColumns) < Len(columns)

\* The kept rows, each mapped to its cells under the selected names in the
\* order of selectedColumns when a projection applies.
ProjectedRows ==
  IF Projecting
  THEN [k \in 1..Len(KeptRows) |->
          [j \in 1..Len(selectedColumns) |->
             NamedCell(KeptRows[k], selectedColumns[j])]]
  ELSE KeptRows

\* C14: the view is the sort of the projection of the rows kept by the
\* text predicate and the date predicate, both read on the full-width row;
\* the projection applies only when selectedColumns is non-empty and
\* shorter than the header, and lists the cells in the order of
\* selectedColumns.
C14_StagesInOrder ==
  /\ filteredData = sortRows(ProjectedRows, sortColumn, sortDirection)
  /\ Len(filteredData) = Len(KeptRows)
  /\ \A k \in 1..Len(filteredData) :
       Len(filteredData[k]) = (IF Projecting THEN Len(selectedColumns)
                               ELSE Len(hPipe))

\* The date column and the second name column are shown, in this order; the
\* row kept matches the text in the column left out only, and the range is
\* read from the full row.
C14_Witness ==
  /\ data = <<hPipe, <<sAbc, sDay1, s5>>, <<s10, sDay2, sAbc>>>>
  /\ selectedColumns = <<sDate, sName>>
  /\ filterText = sAbc
  /\ dateRange.start = sDay2
  /\ sortColumn = 0
  /\ filteredData = <<<<sDay2, s10>>>>

----------------------------------------------------------------------------
(* The order of the sorted view *)

\* seq and of hold the same rows, each as often.
IsPermutation(seq, of) ==
  /\ Len(seq) = Len(of)
  /\ \A r \in Range(seq) \cup Range(of) : CountIn(seq, {r}) = CountIn(of, {r})

\* C15: with no sort column the view is the rows as uploaded; with
\* one it is a permutation of them in which every row stands before every
\* later row in the order of the comparator (numeric when both cells are
\* numbers, locale string order otherwise, reversed for desc).
C15_SortedPairwise ==
  LET rows == Slice1(data)
      view == sortRows(rows, sortColumn, sortDirection)
  IN  /\ sortColumn = NoSort => view = rows
      /\ sortColumn # NoSort =>
           /\ IsPermutation(view, rows)
           /\ \A i, j \in 1..Len(view) :
                i < j => compareRows(view[i], view[j], sortColumn, sortDirection) <= 0

----------------------------------------------------------------------------
(* The window of page buttons *)

MaxWindowPages == 8

\* Tables of t pages, the last page full or holding a single row, are
\* uploaded one after another and the page buttons clicked, so that every
\* current page meets every total.
NextWindow ==
  \/ \E t \in 0..MaxWindowPages, short \in {0, rowsPerPage - 1} :
       handleFileUpload(PageTable(Max(0, rowsPerPage * t - short)))
  \/ \E page \in 1..MaxWindowPages : setCurrentPage(page)

SpecWindow == Init /\ [][NextWindow]_vars

\* C16: the visible page numbers are min(5, totalPages) consecutive
\* integers within 1 .. totalPages (none when totalPages = 0); currentPage
\* is among them when it lies in 1 .. totalPages, and they are currentPage-2
\* .. currentPage+2 when that range lies in 1 .. totalPages.
C16_WindowShape ==
  LET w == visiblePages
      p == currentPage
      t == totalPages
  IN  /\ Len(w) = Min(5, t)
      /\ \A i \in 1..Len(w) : w[i] \in 1..t
      /\ \A i \in 1..(Len(w) - 1) : w[i + 1] = w[i] + 1
      /\ p \in 1..t => \E i \in 1..Len(w) : w[i] = p
      /\ (p - 2 >= 1 /\ p + 2 <= t) => w = <<p - 2, p - 1, p, p + 1, p + 2>>

\* The last page of a long table, where the window has slid back to keep
\* five buttons.
C16_Witness ==
  /\ last = "setCurrentPage"
  /\ currentPage = MaxWindowPages
  /\ totalPages = MaxWindowPages
  /\ Len(visiblePages) = 5
  /\ visiblePages[5] = MaxWindowPages


\* C17: currentPage changes in no step but the click on a page button; when
\* it exceeds totalPages, the page shown is empty.
C17_PageOnlyByClick ==
  /\ [][last' # "setCurrentPage" => currentPage' = currentPage]_vars
  /\ [](currentPage > totalPages => paginatedRows = <<>>)

\* Page 2 of eleven rows was on display when the text filter left one row.
C17_Witness ==
  /\ last = "setFilterText"
  /\ Len(data) = MaxViewRows + 1
  /\ Len(filteredData) = 1
  /\ totalPages = 1
  /\ currentPage = 2
  /\ paginatedRows = <<>>

----------------------------------------------------------------------------
(* Metrics, uploads and the timer *)

\* C18: a timer callback runs only while the table has a data row and
\* changes nothing but the metrics; right after every upload the metrics
\* are the aggregate of the uploaded table alone (all zero when it has no
\* data row), whatever the callbacks had added before.
C18_UploadResetsMetrics ==
  /\ [][last' = "tick" =>
         /\ Len(data) > 1
         /\ UNCHANGED <<data, columns, xColumn, yColumn, chartType,
                        instruction, filterText, sortColumn, sortDirection,
                        currentPage, dateRange, selectedColumns, isLoading,
                        pending>>]_vars
  /\ [][last' = "upload" =>
         metrics' = (IF Len(data') > 1
                     THEN computeMetrics(data', columns')
                     ELSE ZeroMetrics)]_vars

----------------------------------------------------------------------------
(* Requests in flight *)

----------------------------------------------------------------------------
(* The request settles: fairness *)

\* The fetch of interpretInstruction settles: the route handler answers, or
\* the request fails on its way.
Settle ==
  \/ \E outcome \in RouteOutcomes : POST(outcome)
  \/ \E how \in {"rejected", "unparsable"} : fetchFails(how)

\* Every fetch settles in the end (the runtimes bound the wait for an
\* answer), and the continuation of a settled await is run by the event
\* loop.
SpecRouteFair ==
  SpecRoute /\ WF_vars(Settle) /\ WF_vars(interpretInstructionResult)

\* C20: one request at most is in flight, and isLoading is true exactly
\* while one is; interpretInstruction starts only while isLoading is false
\* and sets it exactly when it sends the request; its continuation sets it
\* to false on every path; and whenever isLoading is true it is false again
\* later.
C20_OneRequestAtATime ==
  /\ [](Len(pending) <= 1)
  /\ [](isLoading <=> pending # <<>>)
  /\ [][last' = "interpretInstruction" =>
         /\ ~isLoading
         /\ isLoading' <=> (instruction # sEmpty /\ Len(columns) > 0)
         /\ isLoading' <=> pending' # <<>>]_vars
  /\ [][last' = "response" => ~isLoading' /\ pending' = <<>>]_vars
  /\ (isLoading ~> ~isLoading)

\* The request has failed, the alert is up and the button is enabled again.
C20_Witness ==
  /\ last = "response"
  /\ alert = "Error processing instruction. Please try again."
  /\ ~isLoading
  /\ pending = <<>>
  /\ instruction = sInstruction

============================================================================
